---------------------------- MODULE Spec2Model ----------------------------
(***************************************************************************)
(* A model of the Groovesizer driver (src/Groovesizer.cpp): the debounced  *)
(* button matrix reader, the potentiometer reader and the LED matrix       *)
(* writer, together with the hardware they poll (the clock, the button     *)
(* shift-register cascade, the analog multiplexer).                        *)
(*                                                                         *)
(* One call of a method is one step.  The clock does not advance while a   *)
(* method runs: every millis() of one call returns the same value.  The    *)
(* object is constructed by a step of its own, at whatever time the clock  *)
(* shows then.                                                             *)
(***************************************************************************)
EXTENDS Integers, Sequences, FiniteSets, TLC

(***************************************************************************)
(* Program constants.                                                      *)
(***************************************************************************)
LED_DATA_PIN == 4
LED_CLOCK_PIN == 6
LED_LATCH_PIN == 2
BUTTON_LATCH_PIN == 7
BUTTON_CLOCK_PIN == 8
BUTTON_DATA_PIN == 9
MUX_CHAN_PINS == <<17, 16, 15>>
MUX_INPUT_PIN == 0
MUX_CHAN_PIN_COUNT == 3
NUM_POTS == 6
ANALOG_RANGE_MIN == 25
ANALOG_RANGE_MAX == 1000
DEBOUNCE_MILLIS == 10
MATRIX_COLS == 8
MATRIX_ROWS == 5
\* width of unsigned int on the target (an 8-bit AVR)
UINT_BITS == 16
\* the range of analogRead()
ANALOG_MAX == 1023
\* width of unsigned long on the target
ULONG_BITS == 32

(***************************************************************************)
(* Bounds of the model.                                                    *)
(***************************************************************************)
\* the clock stops advancing at MaxMillis
MaxMillis == 22
\* the clock of the long-hold specification stops advancing at MaxLongMillis
MaxLongMillis == 65560
\* write() is called at most MaxLoops times
MaxLoops == 4
\* the frame specification also starts FramesBeforeWrap calls of write() before
\* the frame counter wraps
FramesBeforeWrap == 3

Rows == 0 .. MATRIX_ROWS - 1
Cols == 0 .. MATRIX_COLS - 1
Pots == 0 .. NUM_POTS - 1
\* the buttons the model follows: those of ToggleCells are pressed and released
\* while the program runs, the others are held down or not from the start
Cells == {<<0, 0>>, <<4, 6>>}
ToggleCells == {<<4, 6>>}
\* what the clock advances by between two calls
TickSteps == {5, 11}
\* the pots the environment turns, and the raw samples it turns them to
PotChannels == {0, 5}
PotRaws == {0, 32, 33, 40, 1023}
\* the buttons pressed and released where the order of events is followed
OrderCells == {<<2, 3>>, <<4, 1>>, <<4, 6>>}
\* the LEDs the host sets, and the row bytes it writes
LedCells == {<<0, 0>>, <<4, 6>>}
LedRowBytes == {0, 255}
\* the content a local variable may hold before it is first assigned
UninitData == {0, 255}
\* the same, where shiftIn is called on its own
ShiftJunk == {0, 85, 170, 255}

(***************************************************************************)
(* Arduino's bit macros and integer conversions.                           *)
(***************************************************************************)
Pow2(n) == 2 ^ n
bitRead(value, bit) == (value \div Pow2(bit)) % 2
\* (a variant that only ever sets a bit)
bitWriteSetOnly(value, bit, bitvalue) ==
    IF bitvalue # 0
    THEN value + (1 - bitRead(value, bit)) * Pow2(bit)
    ELSE value
bitWrite(value, bit, bitvalue) ==
    IF bitvalue # 0
    THEN value + (1 - bitRead(value, bit)) * Pow2(bit)
    ELSE value - bitRead(value, bit) * Pow2(bit)
\* (a variant that keeps the full width)
ToUIntWide(x) == x
\* Conversion to unsigned int.  unsigned long arithmetic is modulo 2^32; the
\* clock of the model stays far below 2^31, so sums of unsigned longs are exact
\* here, and a difference reduced modulo 2^32 and then truncated to unsigned
\* int is the difference modulo 2^UINT_BITS.
ToUInt(x) == x % Pow2(UINT_BITS)
\* millis() - buttonDownTime[i], stored into an unsigned int
HeldForNoWrap(t, downTime) == ToUInt(t) - downTime
HeldFor(t, downTime) == ToUInt(t - downTime)
Shr3(x) == x \div 8
constrainHighOnly(amt, low, high) == IF amt > high THEN high ELSE amt
constrain(amt, low, high) == IF amt < low THEN low ELSE IF amt > high THEN high ELSE amt
\* C's division truncates toward zero
CDiv(a, b) == IF a >= 0 THEN a \div b ELSE -((-a) \div b)
map(x, in_min, in_max, out_min, out_max) ==
    CDiv((x - in_min) * (out_max - out_min), in_max - in_min) + out_min

(***************************************************************************)
(* An unsigned long is kept as two halves of ULONG_BITS/2 bits, [hi, lo],  *)
(* its value being hi * LimbBase + lo: the values near 2^ULONG_BITS do not *)
(* fit the integers of the model checker.                                  *)
(***************************************************************************)
LimbBase == Pow2(ULONG_BITS \div 2)
ULongZero == [hi |-> 0, lo |-> 0]
ULongMax == [hi |-> LimbBase - 1, lo |-> LimbBase - 1]
\* (a variant that stops at the largest value)
ULongIncSaturating(c) ==
    IF c = ULongMax THEN c
    ELSE IF c.lo = LimbBase - 1 THEN [hi |-> c.hi + 1, lo |-> 0]
    ELSE [c EXCEPT !.lo = @ + 1]
\* c++
ULongInc(c) ==
    IF c.lo = LimbBase - 1
    THEN [hi |-> (c.hi + 1) % LimbBase, lo |-> 0]
    ELSE [c EXCEPT !.lo = @ + 1]
\* c % 2 == 0
ULongEven(c) == c.lo % 2 = 0

Zeros(S) == [x \in S |-> 0]
\* entries of the trace of a call: a pin operation, or a listener invocation
Io(op, pin, val) == [op |-> op, pin |-> pin, val |-> val]
DownEvent(row, col) == [op |-> "buttonDownCallback", row |-> row, col |-> col]
UpEvent(row, col, held) == [op |-> "buttonUpCallback", row |-> row, col |-> col, held |-> held]
PotEvent(pot, val) == [op |-> "potChangeCallback", pot |-> pot, val |-> val]
EventOps == {"buttonDownCallback", "buttonUpCallback", "potChangeCallback"}
IsEvent(e) == e.op \in EventOps
IsButtonEvent(e) == e.op \in {"buttonDownCallback", "buttonUpCallback"}
IsPotEvent(e) == e.op = "potChangeCallback"
ButtonPins == {BUTTON_LATCH_PIN, BUTTON_CLOCK_PIN, BUTTON_DATA_PIN}
LedPins == {LED_DATA_PIN, LED_CLOCK_PIN, LED_LATCH_PIN}
IsPinOp(e, pins) == ~IsEvent(e) /\ e.pin \in pins
LatchPins == {BUTTON_LATCH_PIN, LED_LATCH_PIN}
Events(tr) == SelectSeq(tr, IsEvent)
ButtonEvents(tr) == SelectSeq(tr, IsButtonEvent)
CellEvents(tr, cell) ==
    LET Hit(e) == IsButtonEvent(e) /\ e.row = cell[1] /\ e.col = cell[2]
    IN  SelectSeq(tr, Hit)
ButtonPinOps(tr) ==
    LET Hit(e) == IsPinOp(e, ButtonPins)
    IN  SelectSeq(tr, Hit)
\* the level a pin is left at by the digitalWrites of a trace, old when it has none
LastLevel(tr, pin, old) ==
    LET Hit(e) == e.op = "digitalWrite" /\ e.pin = pin
        w == SelectSeq(tr, Hit)
    IN  IF w = <<>> THEN old ELSE w[Len(w)].val

VARIABLES
    millis,             \* the millisecond clock
    matrix,             \* hardware: per row, the byte the button registers hold
    analog,             \* hardware: per multiplexer channel, the raw sample
    constructed,        \* whether the Groovesizer object exists
    ledRows,
    buttonState,
    prevButtonState,
    buttonDownTime,
    prevPotState,
    loopCount,
    lastButtonRead,
    buttonUpCallback,   \* TRUE when a listener is registered, FALSE when NULL
    buttonDownCallback,
    potChangeCallback,
    call,               \* the last method called, with its arguments and what it met
    trace,              \* the pin operations and listener invocations of the last call, in order
    sampled,            \* whether any readButtons() has passed the throttle yet
    lastSample,         \* the matrix as it was at the last accepted sample
    lastRaw,            \* per channel, the raw sample the last readPots() saw
    pressMillis,        \* per cell, the clock at the accepted sample where its bit last went 0->1
    pressHeard,         \* per cell, whether both button listeners were registered at that sample
    lastEvent,          \* per cell, the listener last invoked for it, "none" when none was
    pinLevel,           \* hardware: per latch pin, the level last written, -1 when none was
    evenWrites          \* whether write() has been called an even number of times

hw == <<millis, matrix, analog>>
leds == <<ledRows, loopCount, evenWrites>>
buttons == <<buttonState, prevButtonState, buttonDownTime, lastButtonRead>>
listeners == <<buttonUpCallback, buttonDownCallback, potChangeCallback>>
readHistory == <<sampled, lastSample, lastRaw, pressMillis, pressHeard, lastEvent>>
history == <<readHistory, pinLevel>>
vars == <<millis, matrix, analog, constructed, ledRows, buttonState, prevButtonState,
          buttonDownTime, prevPotState, loopCount, lastButtonRead, buttonUpCallback,
          buttonDownCallback, potChangeCallback, call, trace, sampled,
          lastSample, lastRaw, pressMillis, pressHeard, lastEvent, pinLevel,
          evenWrites>>

CellIndex(row, col) == (row * MATRIX_COLS) + col
\* in matrix m, whether the button of a cell is held down
SampledBit(m, cell) == bitRead(m[cell[1]], cell[2])

(***************************************************************************)
(* The button shift-register cascade: in shift mode it presents the byte   *)
(* of row MATRIX_ROWS-1 first and the byte of row 0 last, each byte from   *)
(* bit 0 up to bit 7, one bit per clock pulse.                             *)
(***************************************************************************)
RegisterBits(m, i) == [k \in 1 .. 8 |-> bitRead(m[MATRIX_ROWS - (i + 1)], k - 1)]

(***************************************************************************)
(* shiftIn: 8 bit steps, each writing the sampled value into bit i of      *)
(* data, which starts out uninitialized.                                   *)
(***************************************************************************)
RECURSIVE shiftInLoop(_, _, _)
shiftInLoop(i, bits, data) ==
    IF i > 7 THEN data
    ELSE shiftInLoop(i + 1, bits, bitWrite(data, i, bits[i + 1]))

shiftIn(bits, data) == shiftInLoop(0, bits, data)

RECURSIVE shiftInIo(_, _, _, _)
shiftInIo(i, bits, dataPin, clockPin) ==
    IF i > 7 THEN <<>>
    ELSE <<Io("digitalWrite", clockPin, 0), Io("delayMicroseconds", -1, 2),
           Io("digitalRead", dataPin, bits[i + 1]), Io("digitalWrite", clockPin, 1)>>
         \o shiftInIo(i + 1, bits, dataPin, clockPin)

(***************************************************************************)
(* readButtons.  st carries the arrays the loops update and the trace:     *)
(* [bs, prev, bdt, trace], and the two listener slots [down, up].  t is    *)
(* what millis() returns.                                                  *)
(***************************************************************************)
\* the edge tests of the column loop
IsRisingInverted(prev, curr) == prev = 1 /\ curr = 0
IsRising(prev, curr) == prev = 0 /\ curr = 1
IsFalling(prev, curr) == curr = 0 /\ prev = 1

RECURSIVE ColLoop(_, _, _, _)
ColLoop(row, col, st, t) ==
    IF col >= MATRIX_COLS THEN st
    ELSE LET prev == bitRead(st.prev[row], col)
             curr == bitRead(st.bs[row], col)
             idx == CellIndex(row, col)
         IN  IF st.down /\ IsRising(prev, curr)
             THEN ColLoop(row, col + 1,
                          [st EXCEPT !.bdt[idx] = ToUInt(t),
                                     !.trace = Append(@, DownEvent(row, col))], t)
             ELSE IF st.up /\ IsFalling(prev, curr)
             THEN ColLoop(row, col + 1,
                          [st EXCEPT !.trace =
                               Append(@, UpEvent(row, col,
                                                 HeldFor(t, st.bdt[idx])))], t)
             ELSE ColLoop(row, col + 1, st, t)

RowOfAscending(i) == i
RowOf(i) == MATRIX_ROWS - (i + 1)

RECURSIVE RowLoop(_, _, _, _)
RowLoop(i, st, t, junk) ==
    IF i >= MATRIX_ROWS THEN st
    ELSE LET row == RowOf(i)
             bits == RegisterBits(matrix, i)
             s1 == [st EXCEPT !.prev[row] = st.bs[row],
                              !.bs[row] = shiftIn(bits, junk),
                              !.trace = @ \o shiftInIo(0, bits, BUTTON_DATA_PIN,
                                                       BUTTON_CLOCK_PIN)]
             s2 == IF s1.bs[row] # s1.prev[row] THEN ColLoop(row, 0, s1, t) ELSE s1
         IN  RowLoop(i + 1, s2, t, junk)

\* the debounce guard: TRUE when the call returns without sampling
Throttled(last, t) == last + DEBOUNCE_MILLIS < t

\* the two writes of the button latch pin
ButtonLatchStuckLow(val) == Io("digitalWrite", BUTTON_LATCH_PIN, 0)
ButtonLatchLedPin(val) == Io("digitalWrite", LED_LATCH_PIN, val)
ButtonLatch(val) == Io("digitalWrite", BUTTON_LATCH_PIN, val)
\* the assignment lastButtonRead = millis(), as it shows on the trace
StoreLastButtonRead(t) == Io("lastButtonRead", -1, t)

readButtons(t, junk, down, up) ==
    LET st0 == [bs |-> buttonState, prev |-> prevButtonState, bdt |-> buttonDownTime,
                trace |-> <<>>, down |-> down, up |-> up]
    IN  IF Throttled(lastButtonRead, t)
        THEN st0 @@ [last |-> lastButtonRead, accepted |-> FALSE]
        ELSE LET s1 == [st0 EXCEPT !.trace = <<ButtonLatch(0)>>]
                 s2 == RowLoop(0, s1, t, junk)
             IN  [s2 EXCEPT !.trace = @ \o <<ButtonLatch(1), StoreLastButtonRead(t)>>]
                 @@ [last |-> t, accepted |-> TRUE]

(***************************************************************************)
(* readPots and getPotValue.                                               *)
(***************************************************************************)
\* the rescaled value of a raw sample
Rescale(raw) ==
    map(constrain(raw, ANALOG_RANGE_MIN, ANALOG_RANGE_MAX),
        ANALOG_RANGE_MIN, ANALOG_RANGE_MAX, 0, 1023)

\* the multiplexer: the channel its three select lines encode
RECURSIVE MuxSelected(_, _)
MuxSelected(channel, bit) ==
    IF bit >= MUX_CHAN_PIN_COUNT THEN 0
    ELSE bitRead(channel, bit) * Pow2(bit) + MuxSelected(channel, bit + 1)

RECURSIVE MuxSelectIo(_, _)
MuxSelectIo(channel, bit) ==
    IF bit >= MUX_CHAN_PIN_COUNT THEN <<>>
    ELSE <<Io("digitalWrite", MUX_CHAN_PINS[bit + 1], bitRead(channel, bit))>>
         \o MuxSelectIo(channel, bit + 1)

analogRead(channel) == analog[MuxSelected(channel, 0)]

getPotValue(channel) == Rescale(analogRead(channel))

getPotValueIo(channel) ==
    MuxSelectIo(channel, 0) \o <<Io("analogRead", MUX_INPUT_PIN, analogRead(channel))>>

\* what readPots compares with the stored state, what it stores, and what it
\* hands to the listener
ComparedValueRaw(potVal) == potVal
ComparedValue(potVal) == Shr3(potVal)
StoredValueRaw(potVal) == potVal
StoredValue(potVal) == Shr3(potVal)
potChangeArgsQuantized(i, potVal) == PotEvent(i, Shr3(potVal))
potChangeArgs(i, potVal) == PotEvent(i, potVal)

\* st is [pps, trace] and the listener slot [pot]
RECURSIVE PotLoop(_, _)
PotLoop(i, st) ==
    IF i >= NUM_POTS THEN st
    ELSE LET potVal == getPotValue(i)
             s1 == [st EXCEPT !.trace = @ \o getPotValueIo(i)]
         IN  IF ComparedValue(potVal) # s1.pps[i]
             THEN PotLoop(i + 1,
                          [s1 EXCEPT !.pps[i] = StoredValue(potVal),
                                     !.trace = IF st.pot
                                               THEN Append(@, potChangeArgs(i, potVal))
                                               ELSE @])
             ELSE PotLoop(i + 1, s1)

\* tr is what the call has put on the trace before readPots() runs
readPotsFirst(pps, tr, pot) ==
    LET r == PotLoop(0, [pps |-> pps, trace |-> <<>>, pot |-> pot])
    IN  [r EXCEPT !.trace = @ \o tr]
readPots(pps, tr, pot) == PotLoop(0, [pps |-> pps, trace |-> tr, pot |-> pot])

(***************************************************************************)
(* writeLeds, and the accessors.                                           *)
(***************************************************************************)
LedByteAlways(rows, count, i) == rows[i]
LedByte(rows, count, i) == IF ULongEven(count) THEN rows[i] ELSE 0

RECURSIVE ShiftOutRows(_, _, _)
ShiftOutRows(i, rows, count) ==
    IF i >= MATRIX_ROWS THEN <<>>
    ELSE <<Io("shiftOut", LED_DATA_PIN, LedByte(rows, count, i))>>
         \o ShiftOutRows(i + 1, rows, count)

writeLeds(rows, count) ==
    <<Io("digitalWrite", LED_LATCH_PIN, 0)>> \o ShiftOutRows(0, rows, count)
    \o <<Io("digitalWrite", LED_LATCH_PIN, 1)>>

LedBitSameOrder(col) == col
LedBit(col) == MATRIX_COLS - 1 - col

getButtonLedOrder(row, col) == bitRead(buttonState[row], MATRIX_COLS - 1 - col)
getButton(row, col) == bitRead(buttonState[row], col)

(***************************************************************************)
(* The initial state: the globals as the loader zeroes them, no object     *)
(* constructed yet, the hardware in some state.                            *)
(***************************************************************************)
RECURSIVE RowByte(_, _, _)
RowByte(S, row, col) ==
    IF col >= MATRIX_COLS THEN 0
    ELSE (IF <<row, col>> \in S THEN Pow2(col) ELSE 0) + RowByte(S, row, col + 1)

\* the matrix in which exactly the cells of S are held down
MatrixOf(S) == [row \in Rows |-> RowByte(S, row, 0)]

\* With built FALSE: the globals as the loader zeroes them (count is zero).
\* With built TRUE: the state the program is in when the object was constructed
\* at boot and write() has then been called count times.
InitState(m, a, count, built) ==
    /\ millis = 0
    /\ matrix = m
    /\ analog = a
    /\ constructed = built
    /\ ledRows = Zeros(Rows)
    /\ buttonState = (IF built THEN m ELSE Zeros(Rows))
    /\ prevButtonState = Zeros(Rows)
    /\ buttonDownTime = Zeros(0 .. MATRIX_ROWS * MATRIX_COLS - 1)
    /\ prevPotState = [c \in Pots |-> IF built THEN Shr3(Rescale(a[c])) ELSE 0]
    /\ loopCount = count
    /\ lastButtonRead = 0
    /\ buttonUpCallback = FALSE
    /\ buttonDownCallback = FALSE
    /\ potChangeCallback = FALSE
    /\ call = [op |-> "idle"]
    /\ trace = <<>>
    /\ sampled = built
    /\ lastSample = (IF built THEN m ELSE Zeros(Rows))
    /\ lastRaw = [c \in Pots |-> IF built THEN a[c] ELSE -1]
    /\ pressMillis = [cell \in Cells |-> -1]
    /\ pressHeard = [cell \in Cells |-> FALSE]
    /\ lastEvent = [cell \in Cells |-> "none"]
    /\ pinLevel = [pin \in LatchPins |-> IF built THEN 1 ELSE -1]
    /\ evenWrites = (count.lo % 2 = 0)

InitWith(m, a) == InitState(m, a, ULongZero, FALSE)

Init == \E S \in SUBSET Cells : InitWith(MatrixOf(S), Zeros(0 .. 7))

(***************************************************************************)
(* The environment: the clock, the buttons, the pots.                      *)
(***************************************************************************)
Idle == call' = [op |-> "idle"] /\ trace' = <<>>

Advance(d, max) ==
    /\ millis + d <= max
    /\ millis' = millis + d
    /\ Idle
    /\ UNCHANGED <<matrix, analog, constructed, leds, buttons, prevPotState,
                   listeners, history>>

Tick == \E d \in TickSteps : Advance(d, MaxMillis)

Press ==
    \E cell \in ToggleCells :
        /\ bitRead(matrix[cell[1]], cell[2]) = 0
        /\ matrix' = [matrix EXCEPT ![cell[1]] = bitWrite(@, cell[2], 1)]
        /\ Idle
        /\ UNCHANGED <<millis, analog, constructed, leds, buttons, prevPotState,
                       listeners, history>>

Release ==
    \E cell \in ToggleCells :
        /\ bitRead(matrix[cell[1]], cell[2]) = 1
        /\ matrix' = [matrix EXCEPT ![cell[1]] = bitWrite(@, cell[2], 0)]
        /\ Idle
        /\ UNCHANGED <<millis, analog, constructed, leds, buttons, prevPotState,
                       listeners, history>>

(***************************************************************************)
(* read(): readButtons() then readPots().  pre is what the caller has      *)
(* already put on the trace; down, up and pot are the listener slots.      *)
(***************************************************************************)
ReadEffect(opname, pre, down, up, pot, junk) ==
    \E b \in {readButtons(millis, junk, down, up)} :
    \E p \in {readPots(prevPotState, pre \o b.trace, pot)} :
    LET rose == {cell \in Cells : /\ b.accepted /\ sampled
                                  /\ bitRead(lastSample[cell[1]], cell[2]) = 0
                                  /\ bitRead(matrix[cell[1]], cell[2]) = 1}
        fell == {cell \in Cells : /\ b.accepted /\ sampled
                                  /\ bitRead(lastSample[cell[1]], cell[2]) = 1
                                  /\ bitRead(matrix[cell[1]], cell[2]) = 0}
    IN  /\ buttonState' = b.bs
        /\ prevButtonState' = b.prev
        /\ buttonDownTime' = b.bdt
        /\ lastButtonRead' = b.last
        /\ prevPotState' = p.pps
        /\ trace' = p.trace
        /\ call' = [op |-> opname, accepted |-> b.accepted, rose |-> rose, fell |-> fell,
                     same |-> {c \in Pots : lastRaw[c] = analog[c]}]
        /\ sampled' = (sampled \/ b.accepted)
        /\ lastSample' = IF b.accepted THEN matrix ELSE lastSample
        /\ lastRaw' = [c \in Pots |-> analog[c]]
        /\ pressMillis' = [cell \in Cells |->
                             IF cell \in rose THEN millis ELSE pressMillis[cell]]
        /\ pressHeard' = [cell \in Cells |->
                            IF cell \in rose THEN down /\ up ELSE pressHeard[cell]]
        /\ lastEvent' = [cell \in Cells |->
                           LET ev == CellEvents(b.trace, cell)
                           IN  IF ev = <<>> THEN lastEvent[cell] ELSE ev[Len(ev)].op]
        /\ pinLevel' = [pin \in LatchPins |-> LastLevel(p.trace, pin, pinLevel[pin])]

ConstructorIo ==
    <<Io("pinMode", LED_DATA_PIN, 1), Io("pinMode", LED_CLOCK_PIN, 1),
      Io("pinMode", LED_LATCH_PIN, 1), Io("pinMode", BUTTON_DATA_PIN, 0),
      Io("pinMode", BUTTON_CLOCK_PIN, 1), Io("pinMode", BUTTON_LATCH_PIN, 1)>>
    \o [bit \in 1 .. MUX_CHAN_PIN_COUNT |-> Io("pinMode", MUX_CHAN_PINS[bit], 1)]

Construct ==
    /\ ~constructed
    /\ constructed' = TRUE
    /\ buttonUpCallback' = FALSE
    /\ buttonDownCallback' = FALSE
    /\ potChangeCallback' = FALSE
    /\ \E junk \in UninitData : ReadEffect("Groovesizer", ConstructorIo, FALSE, FALSE, FALSE, junk)
    /\ UNCHANGED <<hw, leds>>

Read ==
    /\ constructed
    /\ \E junk \in UninitData :
           ReadEffect("read", <<>>, buttonDownCallback, buttonUpCallback,
                      potChangeCallback, junk)
    /\ UNCHANGED <<hw, constructed, leds, listeners>>

SetButtonDownListener ==
    \E cb \in BOOLEAN :
        /\ constructed
        /\ buttonDownCallback' = cb
        /\ call' = [op |-> "setButtonDownListener", cb |-> cb]
        /\ trace' = <<>>
        /\ UNCHANGED <<hw, constructed, leds, buttons, prevPotState, buttonUpCallback,
                       potChangeCallback, history>>

SetButtonUpListener ==
    \E cb \in BOOLEAN :
        /\ constructed
        /\ buttonUpCallback' = cb
        /\ call' = [op |-> "setButtonUpListener", cb |-> cb]
        /\ trace' = <<>>
        /\ UNCHANGED <<hw, constructed, leds, buttons, prevPotState, buttonDownCallback,
                       potChangeCallback, history>>

Next ==
    \/ Tick
    \/ Press
    \/ Release
    \/ Construct
    \/ Read
    \/ SetButtonDownListener
    \/ SetButtonUpListener

Spec == Init /\ [][Next]_vars

(***************************************************************************)
(* The pots: the environment turns them, the host registers the listener.  *)
(***************************************************************************)
AnalogOf(a) == [c \in 0 .. 7 |-> IF c \in DOMAIN a THEN a[c] ELSE 0]

InitPots == \E a \in [PotChannels -> PotRaws] : InitWith(MatrixOf({}), AnalogOf(a))

Turn ==
    \E c \in PotChannels, raw \in PotRaws :
        /\ raw # analog[c]
        /\ analog' = [analog EXCEPT ![c] = raw]
        /\ Idle
        /\ UNCHANGED <<millis, matrix, constructed, leds, buttons, prevPotState,
                       listeners, history>>

SetPotChangeListener ==
    \E cb \in BOOLEAN :
        /\ constructed
        /\ potChangeCallback' = cb
        /\ call' = [op |-> "setPotChangeListener", cb |-> cb]
        /\ trace' = <<>>
        /\ UNCHANGED <<hw, constructed, leds, buttons, prevPotState, buttonUpCallback,
                       buttonDownCallback, history>>

(***************************************************************************)
(* write(), setLed() and setLedRow().                                      *)
(***************************************************************************)
\* (the counter, once it has wrapped, is taken up to MaxLoops)
Write ==
    /\ constructed
    /\ loopCount.hi = 0 => loopCount.lo < MaxLoops
    /\ trace' = writeLeds(ledRows, loopCount)
    /\ loopCount' = ULongInc(loopCount)
    /\ call' = [op |-> "write", count |-> loopCount]
    /\ pinLevel' = [pin \in LatchPins |-> LastLevel(trace', pin, pinLevel[pin])]
    /\ evenWrites' = ~evenWrites
    /\ UNCHANGED <<hw, constructed, ledRows, buttons, prevPotState, listeners,
                   readHistory>>

SetLed ==
    \E cell \in LedCells, val \in BOOLEAN :
        /\ constructed
        /\ ledRows' = [ledRows EXCEPT ![cell[1]] =
                           bitWrite(@, LedBit(cell[2]), IF val THEN 1 ELSE 0)]
        /\ call' = [op |-> "setLed", row |-> cell[1], col |-> cell[2], val |-> val]
        /\ trace' = <<>>
        /\ UNCHANGED <<hw, constructed, loopCount, evenWrites, buttons, prevPotState,
                       listeners, history>>

SetLedRow ==
    \E cell \in LedCells, val \in LedRowBytes :
        /\ constructed
        /\ ledRows' = [ledRows EXCEPT ![cell[1]] = val]
        /\ call' = [op |-> "setLedRow", row |-> cell[1], val |-> val]
        /\ trace' = <<>>
        /\ UNCHANGED <<hw, constructed, loopCount, evenWrites, buttons, prevPotState,
                       listeners, history>>

NextPots ==
    \/ Construct
    \/ Turn
    \/ SetPotChangeListener
    \/ Read
    \/ Write

SpecPots == InitPots /\ [][NextPots]_vars

InitLeds == InitWith(MatrixOf({}), AnalogOf(<<>>))

NextLeds ==
    \/ Construct
    \/ SetLed
    \/ SetLedRow
    \/ Write

SpecLeds == InitLeds /\ [][NextLeds]_vars

(***************************************************************************)
(* The order of a pass: the clock stands still, so that every read() is    *)
(* accepted, while several buttons change between two calls.               *)
(***************************************************************************)
InitOrder == InitWith(MatrixOf({}), AnalogOf(<<>>))

Toggle ==
    \E cell \in OrderCells :
        /\ matrix' = [matrix EXCEPT ![cell[1]] =
                          bitWrite(@, cell[2], 1 - bitRead(@, cell[2]))]
        /\ Idle
        /\ UNCHANGED <<millis, analog, constructed, leds, buttons, prevPotState,
                       listeners, history>>

NextOrder ==
    \/ Construct
    \/ Toggle
    \/ Read
    \/ SetButtonDownListener
    \/ SetButtonUpListener

SpecOrder == InitOrder /\ [][NextOrder]_vars

(***************************************************************************)
(* Buttons and pots together: the host registers listeners, a button is    *)
(* pressed and released, a pot is turned from end to end, and the clock    *)
(* advances by more than the debounce interval.                            *)
(***************************************************************************)
InitMix == InitWith(MatrixOf({}), AnalogOf(<<>>))

RegisterDown == ~buttonDownCallback /\ SetButtonDownListener /\ buttonDownCallback'
RegisterUp == ~buttonUpCallback /\ SetButtonUpListener /\ buttonUpCallback'
RegisterPot == ~potChangeCallback /\ SetPotChangeListener /\ potChangeCallback'

Twist ==
    \E c \in PotChannels :
        /\ analog' = [analog EXCEPT ![c] = IF @ = 0 THEN ANALOG_MAX ELSE 0]
        /\ Idle
        /\ UNCHANGED <<millis, matrix, constructed, leds, buttons, prevPotState,
                       listeners, history>>

Wait == Advance(DEBOUNCE_MILLIS + 1, MaxMillis)

NextMix ==
    \/ Construct
    \/ RegisterDown
    \/ RegisterUp
    \/ RegisterPot
    \/ Press
    \/ Release
    \/ Twist
    \/ Wait
    \/ Read

SpecMix == InitMix /\ [][NextMix]_vars

(***************************************************************************)
(* Input and output together: the host constructs the object and          *)
(* registers its three listeners in setup(), then reads, sets LEDs and     *)
(* writes while a button and a pot move; the clock stands still.           *)
(***************************************************************************)
InitIo == InitWith(MatrixOf({}), AnalogOf(<<>>))

SetupDone == buttonDownCallback /\ buttonUpCallback /\ potChangeCallback

LoopPress == SetupDone /\ Press
LoopRelease == SetupDone /\ Release
LoopTwist == SetupDone /\ Twist
LoopRead == SetupDone /\ Read
LoopSetLed == SetupDone /\ SetLed
LoopWrite == SetupDone /\ Write

NextIo ==
    \/ Construct
    \/ RegisterDown
    \/ RegisterUp
    \/ RegisterPot
    \/ LoopPress
    \/ LoopRelease
    \/ LoopTwist
    \/ LoopRead
    \/ LoopSetLed
    \/ LoopWrite

SpecIo == InitIo /\ [][NextIo]_vars

(***************************************************************************)
(* Both button listeners registered from construction on: the host makes   *)
(* no read() before it has registered the two.                             *)
(***************************************************************************)
InitEdges == \E S \in SUBSET Cells : InitWith(MatrixOf(S), AnalogOf(<<>>))

ReadHeard == buttonDownCallback /\ buttonUpCallback /\ Read

NextEdges ==
    \/ Construct
    \/ RegisterDown
    \/ RegisterUp
    \/ Tick
    \/ Press
    \/ Release
    \/ ReadHeard

SpecEdges == InitEdges /\ [][NextEdges]_vars

(***************************************************************************)
(* The latches: reads, accepted and not, and writes, while buttons move.   *)
(***************************************************************************)
InitLatch == \E S \in SUBSET Cells : InitWith(MatrixOf(S), AnalogOf(<<>>))

NextLatch ==
    \/ Construct
    \/ Tick
    \/ Press
    \/ Release
    \/ Read
    \/ Write

SpecLatch == InitLatch /\ [][NextLatch]_vars

(***************************************************************************)
(* shiftIn on its own: the register presents any byte, the local variable  *)
(* data holds any junk.                                                    *)
(***************************************************************************)
InitShift ==
    \E byte \in 0 .. 255 :
        InitWith([MatrixOf({}) EXCEPT ![MATRIX_ROWS - 1] = byte], AnalogOf(<<>>))

ShiftIn ==
    \E junk \in ShiftJunk :
        /\ constructed
        /\ call' = [op |-> "shiftIn", data |-> junk,
                    result |-> shiftIn(RegisterBits(matrix, 0), junk)]
        /\ trace' = shiftInIo(0, RegisterBits(matrix, 0), BUTTON_DATA_PIN,
                              BUTTON_CLOCK_PIN)
        /\ UNCHANGED <<hw, constructed, leds, buttons, prevPotState, listeners, history>>

NextShift ==
    \/ Construct
    \/ ShiftIn

SpecShift == InitShift /\ [][NextShift]_vars

(***************************************************************************)
(* The frame counter at both ends of its range: the program starts at      *)
(* boot, or where it is after construction at boot and                     *)
(* 2^ULONG_BITS - FramesBeforeWrap calls of write().                       *)
(***************************************************************************)
InitFrames ==
    \/ InitWith(MatrixOf({}), AnalogOf(<<>>))
    \/ InitState(MatrixOf({}), AnalogOf(<<>>),
                 [hi |-> LimbBase - 1, lo |-> LimbBase - FramesBeforeWrap], TRUE)

NextFrames ==
    \/ Construct
    \/ SetLed
    \/ SetLedRow
    \/ Write
    \/ Read

SpecFrames == InitFrames /\ [][NextFrames]_vars

(***************************************************************************)
(* getPotValue on its own: channel 0 holds any raw sample, channel 1 the   *)
(* next one up, channels 2 and 3 the two ends of the analog range.         *)
(***************************************************************************)
ClampChannels == 0 .. 3

InitClamp ==
    \E raw \in 0 .. ANALOG_MAX :
        InitWith(MatrixOf({}),
                 AnalogOf(<<IF raw < ANALOG_MAX THEN raw + 1 ELSE raw,
                            ANALOG_RANGE_MIN, ANALOG_RANGE_MAX>>
                          @@ (0 :> raw)))

\* call.vals collects the results of the calls made in a row, -1 where none is
GetPotValue ==
    \E channel \in ClampChannels :
        /\ constructed
        /\ call' = [op |-> "getPotValue",
                    vals |-> [(IF call.op = "getPotValue" THEN call.vals
                               ELSE [c \in ClampChannels |-> -1])
                              EXCEPT ![channel] = getPotValue(channel)]]
        /\ trace' = getPotValueIo(channel)
        /\ UNCHANGED <<hw, constructed, leds, buttons, prevPotState, listeners, history>>

NextClamp ==
    \/ Construct
    \/ GetPotValue

SpecClamp == InitClamp /\ [][NextClamp]_vars

(***************************************************************************)
(* A long hold.  The host constructs the object at boot, registers both    *)
(* button listeners and then loops: delay(DEBOUNCE_MILLIS); read().  One   *)
(* button is pressed early on, held, and released at any later time; the   *)
(* run ends with the sample that sees the release.                         *)
(***************************************************************************)
InitLong == InitWith(MatrixOf({}), AnalogOf(<<>>))

PressSeen == \E cell \in ToggleCells : pressMillis[cell] # -1
ReleaseSeen ==
    \E cell \in ToggleCells : pressMillis[cell] # -1 /\ SampledBit(lastSample, cell) = 0

ListenDown ==
    /\ millis = 0 /\ ~buttonDownCallback
    /\ SetButtonDownListener
    /\ buttonDownCallback'

ListenUp ==
    /\ millis = 0 /\ ~buttonUpCallback
    /\ SetButtonUpListener
    /\ buttonUpCallback'

Delay ==
    /\ constructed /\ buttonDownCallback /\ buttonUpCallback
    /\ millis = lastButtonRead
    /\ ~ReleaseSeen
    /\ Advance(DEBOUNCE_MILLIS, MaxLongMillis)

ReadLoop ==
    /\ millis = lastButtonRead + DEBOUNCE_MILLIS
    /\ Read

PressEarly ==
    /\ millis <= DEBOUNCE_MILLIS /\ ~PressSeen
    /\ Press

ReleaseHeld ==
    /\ PressSeen
    /\ Release

NextLong ==
    \/ Construct
    \/ ListenDown
    \/ ListenUp
    \/ Delay
    \/ ReadLoop
    \/ PressEarly
    \/ ReleaseHeld

SpecLong == InitLong /\ [][NextLong]_vars

(***************************************************************************)
(* What the claims speak of.                                               *)
(***************************************************************************)
AllCells == Rows \X Cols

\* C1: a read() made when fewer than DEBOUNCE_MILLIS ms have elapsed since the
\* last accepted read returns without sampling: button state, previous state,
\* press timestamps and the last-accepted-read time are unchanged, no
\* shift-register pin is operated and no button listener is invoked.
C1_ThrottledWithinInterval ==
    [][(call'.op = "read" /\ sampled /\ millis - lastButtonRead < DEBOUNCE_MILLIS)
       => /\ UNCHANGED <<buttonState, prevButtonState, buttonDownTime, lastButtonRead>>
          /\ ButtonPinOps(trace') = <<>>
          /\ ButtonEvents(trace') = <<>>]_vars

\* C2: with both button listeners registered, a cell whose sampled bit goes 0->1
\* at one accepted sample and 1->0 at a later one, the accepted samples being at
\* least DEBOUNCE_MILLIS apart, gets exactly one button-down event, at the
\* first, then exactly one button-up event, at the second, whose heldMillis is
\* the clock time elapsed between the two samples.
C2_OneDownOneUpExactHold ==
    call.op = "read" =>
        \A cell \in Cells :
            /\ (cell \in call.rose /\ buttonDownCallback /\ buttonUpCallback)
                   => CellEvents(trace, cell) = <<DownEvent(cell[1], cell[2])>>
            /\ (cell \in call.fell /\ pressHeard[cell]
                  /\ buttonDownCallback /\ buttonUpCallback)
                   => CellEvents(trace, cell) =
                          <<UpEvent(cell[1], cell[2], millis - pressMillis[cell])>>
            /\ cell \notin (call.rose \cup call.fell) => CellEvents(trace, cell) = <<>>

\* C2 as it holds of the code: the same, with heldMillis the elapsed clock time
\* modulo 2^16, which is the elapsed time itself for a hold shorter than
\* 65536 ms.
C2_OneDownOneUpHoldModulo ==
    call.op = "read" =>
        \A cell \in Cells :
            /\ (cell \in call.rose /\ buttonDownCallback /\ buttonUpCallback)
                   => CellEvents(trace, cell) = <<DownEvent(cell[1], cell[2])>>
            /\ (cell \in call.fell /\ pressHeard[cell]
                  /\ buttonDownCallback /\ buttonUpCallback)
                   => /\ CellEvents(trace, cell) =
                             <<UpEvent(cell[1], cell[2],
                                       (millis - pressMillis[cell]) % 65536)>>
                      /\ millis - pressMillis[cell] < 65536
                             => CellEvents(trace, cell)[1].held
                                    = millis - pressMillis[cell]
            /\ cell \notin (call.rose \cup call.fell) => CellEvents(trace, cell) = <<>>

\* a release was sampled 65540 ms after its press was
C2_Witness ==
    /\ call.op = "read"
    /\ \E cell \in call.fell :
           /\ pressHeard[cell]
           /\ millis - pressMillis[cell] = 65540
           /\ CellEvents(trace, cell) = <<UpEvent(cell[1], cell[2], 4)>>

\* C3: a read() made at least DEBOUNCE_MILLIS ms after the last accepted read is
\* accepted: it samples all rows and records the current time as the
\* last-accepted-read time.
C3_AcceptedAfterInterval ==
    [][(call'.op = "read" /\ sampled /\ millis - lastButtonRead >= DEBOUNCE_MILLIS)
       => /\ lastButtonRead' = millis
          /\ buttonState' = matrix
          /\ Len(ButtonPinOps(trace')) > 0]_vars

\* C4: getButton(r,c) is bit c of the row-r byte of the most recent accepted
\* sample, and a read() discarded by the throttle changes no getButton value.
C4_ReflectsAcceptedSample ==
    /\ [](sampled => \A cell \in AllCells :
                         getButton(cell[1], cell[2]) = SampledBit(lastSample, cell))
    /\ [][(call'.op = "read" /\ ~call'.accepted)
          => \A cell \in AllCells :
                 getButton(cell[1], cell[2])' = getButton(cell[1], cell[2])]_vars

\* a read() was discarded while a followed button differed from its last sample
C4_Witness ==
    /\ call.op = "read" /\ ~call.accepted /\ sampled
    /\ \E cell \in Cells : /\ SampledBit(matrix, cell) = 1
                           /\ getButton(cell[1], cell[2]) = 0
    /\ \E cell \in Cells : getButton(cell[1], cell[2]) = 1

\* C10: no listener is invoked during construction, after construction the
\* button state equals the sampled matrix, and a button held down since
\* construction produces no button-down event on a later read().
C10_ConstructionSamples ==
    /\ call.op = "Groovesizer" => Events(trace) = <<>> /\ buttonState = matrix
    /\ call.op = "read" =>
           \A cell \in Cells \ ToggleCells :
               SampledBit(matrix, cell) = 1 =>
                   \A k \in 1 .. Len(trace) :
                       trace[k] # DownEvent(cell[1], cell[2])

PotEvents(tr) == SelectSeq(tr, IsPotEvent)
ChannelEvents(tr, c) ==
    LET Hit(e) == IsPotEvent(e) /\ e.pot = c
    IN  SelectSeq(tr, Hit)

\* C5: when a readPots() sees on channel c the raw sample the previous
\* readPots() saw there, it does not invoke the pot-change listener for c.
C5_NoEventOnUnchangedRaw ==
    call.op = "read" => \A c \in call.same : ChannelEvents(trace, c) = <<>>

\* a read with the listener registered met an unchanged raw sample on one
\* channel and reported a change on another
C5_Witness ==
    /\ call.op = "read" /\ potChangeCallback
    /\ \E c \in call.same : prevPotState[c] > 0
    /\ PotEvents(trace) # <<>>

\* the events a readPots() owes: for the channels, in ascending order, whose
\* rescaled sample shifted right by 3 differs from the stored value, one event
\* carrying the rescaled sample itself
RECURSIVE OwedPotEvents(_, _, _)
OwedPotEvents(c, stored, raws) ==
    IF c >= NUM_POTS THEN <<>>
    ELSE (IF Rescale(raws[c]) \div 8 # stored[c]
          THEN <<PotEvent(c, Rescale(raws[c]))>> ELSE <<>>)
         \o OwedPotEvents(c + 1, stored, raws)

\* C6: with a pot-change listener registered, readPots() invokes it for channel
\* c iff (rescaled value >> 3) differs from the stored value of c, passes the
\* full-resolution rescaled value in 0..1023, and goes through the channels in
\* ascending order with at most one event per channel.
C6_PotEventsOwed ==
    [][(call'.op = "read" /\ potChangeCallback)
       => /\ PotEvents(trace') = OwedPotEvents(0, prevPotState, analog)
          /\ \A k \in 1 .. Len(PotEvents(trace')) :
                 PotEvents(trace')[k].val \in 0 .. 1023]_vars

\* a read reported one channel with a value that is no multiple of 8 and kept
\* quiet about another whose raw sample had moved within its quantization step
C6_Witness ==
    /\ call.op = "read"
    /\ Len(PotEvents(trace)) = 1
    /\ PotEvents(trace)[1].val % 8 # 0
    /\ \E c \in PotChannels : c \notin call.same /\ ChannelEvents(trace, c) = <<>>

\* C7: the stored pot state is 0 before the first readPots(), is changed only
\* by readPots(), and after every readPots() equals (rescaled sample >> 3) of
\* that call's sample on each channel, a value in 0..127.
C7_PotStateQuantized ==
    /\ [](\A c \in Pots :
              /\ lastRaw[c] = -1 => prevPotState[c] = 0
              /\ lastRaw[c] # -1 => /\ prevPotState[c] = Rescale(lastRaw[c]) \div 8
                                    /\ prevPotState[c] \in 0 .. 127)
    /\ [][prevPotState' # prevPotState => call'.op \in {"read", "Groovesizer"}]_vars

\* a pot at the top of its travel has been read
C7_Witness ==
    /\ call.op = "read"
    /\ \E c \in PotChannels : lastRaw[c] = 1023 /\ prevPotState[c] = 127
    /\ \E c \in PotChannels : lastRaw[c] = 33 /\ prevPotState[c] = 1

ShiftedOut(tr) ==
    LET Hit(e) == e.op = "shiftOut"
        out == SelectSeq(tr, Hit)
    IN  [k \in 1 .. Len(out) |-> out[k].val]

\* C8: writeLeds() shifts out MATRIX_ROWS bytes, row 0 first: the stored row
\* bytes when the frame counter is even, zeros when it is odd; and after
\* setLed(r,c,true) the byte of row r has bit MATRIX_COLS-1-c set.
C8_WriteShiftsRows ==
    /\ [](call.op = "write" =>
              ShiftedOut(trace) = [k \in 1 .. MATRIX_ROWS |->
                                       IF call.count.lo % 2 = 0 THEN ledRows[k - 1] ELSE 0])
    /\ [](call.op = "setLed" /\ call.val =>
              bitRead(ledRows[call.row], MATRIX_COLS - 1 - call.col) = 1)
    /\ [][(call.op = "setLed" /\ call.val /\ call'.op = "write")
          => bitRead(ShiftedOut(trace')[call.row + 1], MATRIX_COLS - 1 - call.col)
                 = (IF loopCount.lo % 2 = 0 THEN 1 ELSE 0)]_vars

\* an even frame was written while LED (4,6) was lit and LED (0,0) too
C8_Witness ==
    /\ call.op = "write" /\ call.count = [hi |-> 0, lo |-> 2]
    /\ ShiftedOut(trace)[5] = 2
    /\ ShiftedOut(trace)[1] = 128

\* C9: getPotValue clamps before rescaling: a raw sample below 25 gives what raw
\* 25 gives, namely 0, a raw sample above 1000 what raw 1000 gives, namely 1023;
\* every result lies in 0..1023 and is non-decreasing in the raw sample.
C9_ClampThenRescale ==
    call.op = "getPotValue" =>
        \A c \in ClampChannels :
            call.vals[c] # -1 =>
                /\ call.vals[c] \in 0 .. 1023
                /\ analog[c] = ANALOG_RANGE_MIN => call.vals[c] = 0
                /\ analog[c] = ANALOG_RANGE_MAX => call.vals[c] = 1023
                /\ \A d \in ClampChannels :
                       call.vals[d] # -1 =>
                           /\ (analog[c] < ANALOG_RANGE_MIN /\ analog[d] = ANALOG_RANGE_MIN)
                                  => call.vals[c] = call.vals[d]
                           /\ (analog[c] > ANALOG_RANGE_MAX /\ analog[d] = ANALOG_RANGE_MAX)
                                  => call.vals[c] = call.vals[d]
                           /\ analog[c] <= analog[d] => call.vals[c] <= call.vals[d]

\* all four channels were read, channel 0 holding a raw sample below the range
C9_Witness ==
    /\ call.op = "getPotValue"
    /\ \A c \in ClampChannels : call.vals[c] # -1
    /\ analog[0] = 10

\* C11: setLed(row,col,val) sets bit MATRIX_COLS-1-col of the byte of row to
\* val and leaves every other bit of that row and every other row as it was;
\* setLedRow(row,val) replaces the byte of row and leaves the other rows as
\* they were; neither changes the frame counter, the button state or the pot
\* state, and neither operates a pin or invokes a listener.
C11_SetLedTouchesOneBit ==
    [][/\ call'.op = "setLed" =>
              /\ \A r \in Rows, b \in 0 .. 7 :
                     bitRead(ledRows'[r], b) =
                         IF r = call'.row /\ b = MATRIX_COLS - 1 - call'.col
                         THEN (IF call'.val THEN 1 ELSE 0)
                         ELSE bitRead(ledRows[r], b)
              /\ \A r \in Rows : ledRows'[r] \in 0 .. 255
              /\ UNCHANGED <<loopCount, buttons, prevPotState>>
              /\ trace' = <<>>
       /\ call'.op = "setLedRow" =>
              /\ ledRows'[call'.row] = call'.val
              /\ \A r \in Rows \ {call'.row} : ledRows'[r] = ledRows[r]
              /\ UNCHANGED <<loopCount, buttons, prevPotState>>
              /\ trace' = <<>>]_vars

\* LED (4,6) was switched off in a row whose other LEDs stay lit, while a LED
\* of row 0 is lit
C11_Witness ==
    /\ call.op = "setLed" /\ call.row = 4 /\ call.col = 6 /\ ~call.val
    /\ ledRows[4] = 253
    /\ ledRows[0] = 128

\* C12: the frame counter is 0 until the first write(), each write() adds
\* exactly 1 to it (modulo 2^32) after shifting out the frame the old count
\* selects, and no other operation changes it; successive calls of write()
\* alternate between the stored row bytes and all zeros, the first one
\* showing the stored bytes, and go on alternating when the counter wraps to 0.
C12_FramesAlternate ==
    /\ [](~constructed \/ call.op = "Groovesizer" => loopCount = [hi |-> 0, lo |-> 0])
    /\ [][call'.op = "write" =>
              /\ loopCount' =
                     IF loopCount.lo < LimbBase - 1
                     THEN [hi |-> loopCount.hi, lo |-> loopCount.lo + 1]
                     ELSE IF loopCount.hi < LimbBase - 1
                     THEN [hi |-> loopCount.hi + 1, lo |-> 0]
                     ELSE [hi |-> 0, lo |-> 0]
              /\ ShiftedOut(trace') =
                     [k \in 1 .. MATRIX_ROWS |->
                          IF loopCount.lo % 2 = 0 THEN ledRows[k - 1] ELSE 0]]_vars
    /\ [][call'.op # "write" => loopCount' = loopCount]_vars
    /\ [](call.op = "write" =>
              ShiftedOut(trace) = [k \in 1 .. MATRIX_ROWS |->
                                       IF evenWrites THEN 0 ELSE ledRows[k - 1]])

\* the write() that wraps the counter blanked a matrix with a lit LED
C12_Witness ==
    /\ call.op = "write" /\ call.count = ULongMax
    /\ loopCount = ULongZero
    /\ evenWrites
    /\ ledRows[4] = 2 /\ ShiftedOut(trace)[5] = 0

\* C13: an unset listener only suppresses the callback.  At an accepted sample
\* every cell whose bit goes 0->1 gets its press timestamp set to the current
\* time, whether or not a button-down listener is registered, so that a
\* button-up event reports the time from the most recent press sample to the
\* release sample, whatever listeners are registered.
C13_TimestampWithoutListener ==
    call.op = "read" =>
        \A cell \in Cells :
            /\ cell \in call.rose
                   => buttonDownTime[CellIndex(cell[1], cell[2])] = millis
            /\ (cell \in call.fell /\ pressMillis[cell] # -1 /\ buttonUpCallback)
                   => CellEvents(trace, cell) =
                          <<UpEvent(cell[1], cell[2], millis - pressMillis[cell])>>

\* of a trace, the bits sampled and the button listeners invoked, in order
PassItems(tr) ==
    LET Hit(e) == e.op = "digitalRead" \/ IsButtonEvent(e)
        it == SelectSeq(tr, Hit)
    IN  [k \in 1 .. Len(it) |->
             IF it[k].op = "digitalRead" THEN <<"bit", it[k].val>>
             ELSE <<it[k].op, it[k].row, it[k].col>>]

\* the events owed for the columns col.. of a row whose byte went from old to new
RECURSIVE OwedRowEvents(_, _, _, _, _, _)
OwedRowEvents(row, col, old, new, down, up) ==
    IF col >= MATRIX_COLS THEN <<>>
    ELSE (IF down /\ bitRead(old, col) = 0 /\ bitRead(new, col) = 1
          THEN <<<<"buttonDownCallback", row, col>>>>
          ELSE IF up /\ bitRead(old, col) = 1 /\ bitRead(new, col) = 0
          THEN <<<<"buttonUpCallback", row, col>>>>
          ELSE <<>>)
         \o OwedRowEvents(row, col + 1, old, new, down, up)

\* what a pass owes from row downward: the 8 bits of the row, bit 0 first,
\* then the events of the row, then the same for the rows below
RECURSIVE OwedPass(_, _, _, _, _)
OwedPass(row, old, new, down, up) ==
    IF row < 0 THEN <<>>
    ELSE [k \in 1 .. 8 |-> <<"bit", bitRead(new[row], k - 1)>>]
         \o OwedRowEvents(row, 0, old[row], new[row], down, up)
         \o OwedPass(row - 1, old, new, down, up)

\* C14: an accepted pass samples the rows in descending order, the first byte
\* clocked in being stored as row MATRIX_ROWS-1; it saves the previous byte of
\* a row before storing the new one; it emits its events in descending row
\* order and, within a row, in ascending column order, the events of a row
\* before the next row is sampled.
C14_PassOrder ==
    [][(call'.op = "read" /\ call'.accepted) =>
           /\ PassItems(trace') = OwedPass(MATRIX_ROWS - 1, buttonState, matrix,
                                           buttonDownCallback, buttonUpCallback)
           /\ prevButtonState' = buttonState
           /\ buttonState' = matrix
           /\ \A k \in 1 .. 8 :
                  PassItems(trace')[k] = <<"bit", bitRead(buttonState'[MATRIX_ROWS - 1], k - 1)>>]_vars

\* one pass reported two buttons of row 4 and then one of row 2
C14_Witness ==
    /\ call.op = "read" /\ call.accepted
    /\ [k \in 1 .. Len(ButtonEvents(trace)) |-> ButtonEvents(trace)[k].op] =
           <<"buttonDownCallback", "buttonUpCallback", "buttonDownCallback">>
    /\ [k \in 1 .. Len(ButtonEvents(trace)) |->
            <<ButtonEvents(trace)[k].row, ButtonEvents(trace)[k].col>>] =
           <<<<4, 1>>, <<4, 6>>, <<2, 3>>>>

\* C15: read() runs the button reader and then the pot reader: within one call
\* everything the button reader does and every button event comes before any
\* pot sample and any pot-change event; and the pots are sampled, and their
\* stored state brought up to date, on every read(), also on one whose button
\* reader is stopped by the throttle.
C15_ButtonsThenPots ==
    call.op = "read" =>
        /\ \A j, k \in 1 .. Len(trace) :
               (/\ IsButtonEvent(trace[k]) \/ IsPinOp(trace[k], ButtonPins)
                /\ IsPotEvent(trace[j]) \/ trace[j].op = "analogRead") => k < j
        /\ LET Hit(e) == e.op = "analogRead"
           IN  Len(SelectSeq(trace, Hit)) = NUM_POTS
        /\ \A c \in Pots : prevPotState[c] = Rescale(analog[c]) \div 8
        /\ potChangeCallback =>
               \A c \in PotChannels : c \notin call.same => ChannelEvents(trace, c) # <<>>

\* one read() reported a button and then a pot
C15_Witness ==
    /\ call.op = "read" /\ call.accepted
    /\ ButtonEvents(trace) # <<>>
    /\ PotEvents(trace) # <<>>

\* a read() stopped by the throttle reported a pot
C15_ThrottledWitness ==
    /\ call.op = "read" /\ ~call.accepted
    /\ ButtonPinOps(trace) = <<>>
    /\ PotEvents(trace) # <<>>

LedPinOps(tr) ==
    LET Hit(e) == IsPinOp(e, LedPins)
    IN  SelectSeq(tr, Hit)

\* C16: read() never changes the stored LED bytes or the frame counter and
\* never operates a LED pin, and setLed() operates none either, so that what
\* setLed() changed shows at the next write() only; write() never changes the
\* button state, the press timestamps, the pot state, the last-accepted-read
\* time or the stored LED bytes, and never invokes a listener.
C16_ReadWriteDisjoint ==
    [][/\ call'.op = "read" =>
              /\ UNCHANGED <<ledRows, loopCount>>
              /\ LedPinOps(trace') = <<>>
       /\ call'.op = "setLed" => LedPinOps(trace') = <<>>
       /\ call'.op = "write" =>
              /\ UNCHANGED <<buttonState, prevButtonState, buttonDownTime,
                             prevPotState, lastButtonRead, ledRows>>
              /\ Events(trace') = <<>>
              /\ loopCount.lo % 2 = 0 =>
                     ShiftedOut(trace') = [k \in 1 .. MATRIX_ROWS |-> ledRows[k - 1]]]_vars

\* a read() that reported a button and a pot came after a setLed() not yet
\* written out, the frame counter being odd
C16_Witness ==
    /\ call.op = "read"
    /\ ButtonEvents(trace) # <<>> /\ PotEvents(trace) # <<>>
    /\ ledRows[4] = 2
    /\ loopCount = [hi |-> 0, lo |-> 1]

\* a write() came while a button was down, its press timestamp taken, and a
\* pot was at the top of its travel
C16_WriteWitness ==
    /\ call.op = "write"
    /\ buttonState[4] = 64 /\ prevPotState[5] = 127
    /\ ledRows[4] = 2

C17_HeldAtConstruction ==
    /\ call.op = "read"
    /\ pressMillis[<<4, 6>>] = -1
    /\ CellEvents(trace, <<4, 6>>) # <<>>
    /\ CellEvents(trace, <<4, 6>>)[1].op = "buttonUpCallback"

\* of a trace, the reads and writes of the button pins and the recording of
\* the last-accepted-read time
ButtonFrame(tr) ==
    LET Hit(e) == \/ e.op = "lastButtonRead"
                  \/ e.op \in {"digitalWrite", "digitalRead"} /\ e.pin \in ButtonPins
    IN  SelectSeq(tr, Hit)

\* C18: an accepted pass drives the button latch low before the first clock
\* pulse, clocks in exactly MATRIX_ROWS * 8 bits while the latch is low, and
\* drives the latch high after the last row and before it records the
\* last-accepted-read time; a call stopped by the throttle does not touch the
\* latch.  writeLeds() drives the LED latch low, shifts out exactly
\* MATRIX_ROWS bytes and drives the latch high.  So between calls the button
\* latch is high once a read was accepted and the LED latch once write() was
\* called.
C18_LatchFraming ==
    /\ (call.op \in {"read", "Groovesizer"} /\ call.accepted) =>
           LET bf == ButtonFrame(trace)
               n == Len(bf)
           IN  /\ n = 3 * 8 * MATRIX_ROWS + 3
               /\ bf[1] = Io("digitalWrite", BUTTON_LATCH_PIN, 0)
               /\ bf[n - 1] = Io("digitalWrite", BUTTON_LATCH_PIN, 1)
               /\ bf[n] = Io("lastButtonRead", -1, millis)
               /\ \A k \in 0 .. 8 * MATRIX_ROWS - 1 :
                      /\ bf[3 * k + 2] = Io("digitalWrite", BUTTON_CLOCK_PIN, 0)
                      /\ bf[3 * k + 3].op = "digitalRead"
                      /\ bf[3 * k + 3].pin = BUTTON_DATA_PIN
                      /\ bf[3 * k + 4] = Io("digitalWrite", BUTTON_CLOCK_PIN, 1)
    /\ (call.op \in {"read", "Groovesizer"} /\ ~call.accepted) =>
           ButtonFrame(trace) = <<>>
    /\ call.op = "write" =>
           LET lf == LedPinOps(trace)
           IN  /\ Len(lf) = MATRIX_ROWS + 2
               /\ lf[1] = Io("digitalWrite", LED_LATCH_PIN, 0)
               /\ lf[MATRIX_ROWS + 2] = Io("digitalWrite", LED_LATCH_PIN, 1)
               /\ \A k \in 2 .. MATRIX_ROWS + 1 : lf[k].op = "shiftOut"
    /\ sampled => pinLevel[BUTTON_LATCH_PIN] = 1
    /\ loopCount # [hi |-> 0, lo |-> 0] => pinLevel[LED_LATCH_PIN] = 1

\* a read() was stopped by the throttle after a pass had sampled a pressed
\* button and write() had been called
C18_Witness ==
    /\ call.op = "read" /\ ~call.accepted /\ sampled
    /\ lastSample[4] = 64
    /\ loopCount = [hi |-> 0, lo |-> 1]
    /\ pinLevel = [pin \in LatchPins |-> 1]

\* the byte whose bit i is the value sampled in bit step i of a shiftIn trace
RECURSIVE ByteOfSamples(_, _)
ByteOfSamples(tr, i) ==
    IF i > 7 THEN 0
    ELSE tr[4 * i + 3].val * Pow2(i) + ByteOfSamples(tr, i + 1)

=============================================================================
